---- MODULE Spec2Model ----
(***************************************************************************)
(* A model of server.js: the JSON-RPC 2.0 line loop over STDIO, its seven  *)
(* method handlers, the deferred list_changed notifications and the        *)
(* process' ways of ending.                                                *)
(*                                                                         *)
(* JavaScript values are tagged records (field t is the typeof/shape tag). *)
(* A JavaScript string is a sequence of atoms: pieces of text that are     *)
(* never split and of which none is a prefix of another, so that the       *)
(* prefix relation on atom sequences is the prefix relation on the text.   *)
(* A number is (n/d) * MAX^h, with MAX standing for Number.MAX_VALUE;      *)
(* d = 0 marks the non-finite values (n/0: Infinity, -Infinity, NaN).      *)
(***************************************************************************)
EXTENDS Integers, Sequences, FiniteSets, TLC

VARIABLES
    proc,     \* "running" | "crashed" (uncaught exception) | "exited" (SIGINT)
    input,    \* every line the client has written to stdin, in order
    pos,      \* how many of them the 'line' listener has been called with
    stdout,   \* every chunk written by process.stdout.write, in order
    timers,   \* pending setTimeout callbacks, in scheduling order
    disk,     \* names of the regular files directly under demo-root
    reads,    \* every path handed to fs.readFileSync, in order
    validator,\* the function compile returned (its schema, its errors property)
    last      \* the latest call of the validator: its data, what errors was
              \* before it, and what it returned

vars == <<proc, input, pos, stdout, timers, disk, reads, validator, last>>

-----------------------------------------------------------------------------
(* Bounds of the model *)

MaxLines == 2      \* lines the client writes in one run
MaxNum == 3        \* largest small integer used as an arithmetic operand
MaxPathLen == 4    \* atoms in the path part of a resources/read uri

-----------------------------------------------------------------------------
(* JavaScript values *)

Undefined == [t |-> "undefined"]
Null == [t |-> "null"]
Bool(b) == [t |-> "boolean", b |-> b]
Str(s) == [t |-> "string", s |-> s]
Num(n) == [t |-> "number", n |-> n, d |-> 1, h |-> 0]
Obj(f) == [t |-> "object", f |-> f]
Arr(a) == [t |-> "array", a |-> a]

EmptyObject == Obj([k \in {} |-> Undefined])

\* Number.MAX_VALUE and the non-finite numbers
MAX_VALUE == [t |-> "number", n |-> 1, d |-> 1, h |-> 1]
Infinity == [t |-> "number", n |-> 1, d |-> 0, h |-> 0]
NegInfinity == [t |-> "number", n |-> -1, d |-> 0, h |-> 0]
NaN == [t |-> "number", n |-> 0, d |-> 0, h |-> 0]

IsFinite(v) == v.t = "number" /\ v.d # 0

Abs(n) == IF n < 0 THEN -n ELSE n
Sign(n) == IF n < 0 THEN -1 ELSE IF n = 0 THEN 0 ELSE 1

RECURSIVE Gcd(_, _)
Gcd(a, b) == IF b = 0 THEN a ELSE Gcd(b, a % b)

\* The real number (n/d) * MAX^h in lowest terms; zero has one form.
Real(n, d, h) ==
    IF n = 0 THEN [t |-> "number", n |-> 0, d |-> 1, h |-> 0]
    ELSE LET g == Gcd(Abs(n), Abs(d))
         IN  [t |-> "number", n |-> (Sign(d) * n) \div g, d |-> Abs(d) \div g, h |-> h]

\* IEEE-754 rounding of a real of the model to a double: a magnitude above
\* MAX_VALUE overflows to an infinity, one below MAX^-1 underflows to zero.
Round(r) ==
    IF r.h >= 2 \/ (r.h = 1 /\ Abs(r.n) > r.d)
    THEN (IF r.n > 0 THEN Infinity ELSE NegInfinity)
    ELSE IF r.h <= -2 THEN Real(0, 1, 0)
    ELSE r

Neg(a) == [a EXCEPT !.n = -a.n]

\* The exact results, on reals of the model (a sum needs equal exponents
\* to stay a real of the model).
RealAdd(a, b) == Real(a.n * b.d + b.n * a.d, a.d * b.d, a.h)
RealMul(a, b) == Real(a.n * b.n, a.d * b.d, a.h + b.h)
RealDiv(a, b) == Real(a.n * b.d, a.d * b.n, a.h - b.h)

\* a + b, a - b, a * b, a / b on finite doubles
JsAdd(a, b) ==
    IF a.h = b.h THEN Round(RealAdd(a, b))
    ELSE IF a.n = 0 THEN b
    ELSE IF b.n = 0 THEN a
    ELSE IF a.h > b.h THEN a ELSE b       \* the smaller operand is absorbed
JsSub(a, b) == JsAdd(a, Neg(b))
JsMul(a, b) == Round(RealMul(a, b))
JsDiv(a, b) ==
    IF b.n = 0
    THEN (IF a.n = 0 THEN NaN ELSE IF a.n > 0 THEN Infinity ELSE NegInfinity)
    ELSE Round(RealDiv(a, b))

-----------------------------------------------------------------------------
(* String(value) *)

Digit(k) == <<"0", "1", "2", "3", "4", "5", "6", "7", "8", "9">>[k + 1]

RECURSIVE Digits(_)
Digits(n) == IF n < 10 THEN <<Digit(n)>> ELSE Digits(n \div 10) \o <<Digit(n % 10)>>

\* the digits after the decimal point of r/d (r < d), d dividing a power of 10
RECURSIVE Fraction(_, _)
Fraction(r, d) ==
    IF r = 0 THEN <<>>
    ELSE <<Digit((10 * r) \div d)>> \o Fraction((10 * r) % d, d)

Terminates(d) == 10000 % d = 0

NumberToString(v) ==
    IF v.d = 0
    THEN (IF v.n = 0 THEN <<"NaN">>
          ELSE IF v.n > 0 THEN <<"Infinity">> ELSE <<"-", "Infinity">>)
    ELSE LET sign == IF v.n < 0 THEN <<"-">> ELSE <<>>
             m == Abs(v.n)
         IN  IF v.h = 0 /\ v.d = 1 THEN sign \o Digits(m)
             ELSE IF v.h = 0 /\ Terminates(v.d)
             THEN sign \o Digits(m \div v.d) \o <<".">> \o Fraction(m % v.d, v.d)
             \* otherwise the shortest decimal that reads back as this double,
             \* kept symbolic
             ELSE sign \o <<"shortest(">> \o Digits(m) \o <<"/">> \o Digits(v.d)
                       \o <<"*MAX^">> \o (IF v.h < 0 THEN <<"-">> ELSE <<>>)
                       \o Digits(Abs(v.h)) \o <<")">>

RECURSIVE JsString(_)
RECURSIVE Join(_)
Join(a) ==
    IF a = <<>> THEN <<>>
    ELSE (IF Head(a).t \in {"undefined", "null"} THEN <<>> ELSE JsString(Head(a)))
         \o (IF Len(a) > 1 THEN <<",">> \o Join(Tail(a)) ELSE <<>>)
JsString(v) ==
    CASE v.t = "undefined" -> <<"undefined">>
      [] v.t = "null" -> <<"null">>
      [] v.t = "boolean" -> (IF v.b THEN <<"true">> ELSE <<"false">>)
      [] v.t = "string" -> v.s
      [] v.t = "number" -> NumberToString(v)
      [] v.t = "array" -> Join(v.a)
      [] v.t = "object" -> <<"[object Object]">>

-----------------------------------------------------------------------------
(* Property access and the operators the handlers use *)

Nullish(v) == v.t \in {"undefined", "null"}

\* v[k] for a v that is not nullish: an own key of an object, else undefined
Get(v, k) == IF v.t = "object" /\ k \in DOMAIN v.f THEN v.f[k] ELSE Undefined

\* v?.[k]
OptGet(v, k) == IF Nullish(v) THEN Undefined ELSE Get(v, k)

\* v ?? w
Coalesce(v, w) == IF Nullish(v) THEN w ELSE v

\* !v
Falsy(v) ==
    \/ Nullish(v)
    \/ (v.t = "boolean" /\ ~v.b)
    \/ (v.t = "number" /\ v.n = 0)
    \/ (v.t = "string" /\ v.s = <<>>)

\* s.startsWith(p)
StartsWith(s, p) == Len(s) >= Len(p) /\ SubSeq(s, 1, Len(p)) = p

\* s.replace(atom, ""): the first occurrence is removed
RECURSIVE ReplaceFirst(_, _)
ReplaceFirst(s, atom) ==
    IF s = <<>> THEN <<>>
    ELSE IF Head(s) = atom THEN Tail(s)
    ELSE <<Head(s)>> \o ReplaceFirst(Tail(s), atom)

\* whether "k in v" throws a TypeError: the right operand is a primitive
InThrows(v) == v.t \in {"string", "number", "boolean"}
\* k in v, for an object or an array (no atom of the model is an array index)
In(k, v) == v.t = "object" /\ k \in DOMAIN v.f

-----------------------------------------------------------------------------
(* JSON.stringify: keys holding undefined are left out, a non-finite number *)
(* and an undefined array element are written as null.  The text is kept    *)
(* as the value a reader of the line parses back.                           *)

RECURSIVE Stringify(_)
Stringify(v) ==
    CASE v.t = "number" -> (IF v.d = 0 THEN Null ELSE v)
      [] v.t = "object" ->
            Obj([k \in {x \in DOMAIN v.f : v.f[x].t # "undefined"} |-> Stringify(v.f[k])])
      [] v.t = "array" ->
            Arr([i \in 1..Len(v.a) |->
                    IF v.a[i].t = "undefined" THEN Null ELSE Stringify(v.a[i])])
      [] OTHER -> v

-----------------------------------------------------------------------------
(* Configuration and the in-memory registries *)

PROTOCOL_VERSION == Str(<<"2025-06-18">>)

sep == "/"
\* path.resolve("demo-root"), the server being started in the directory /
ROOTS == <<<<sep, "demo-root">>>>

ArithmeticOps == <<Str(<<"add">>), Str(<<"sub">>), Str(<<"mul">>), Str(<<"div">>)>>

tools ==
    <<Obj([name |-> Str(<<"calculator_arithmetic">>),
           title |-> Str(<<"Calculator (basic arithmetic)">>),
           description |-> Str(<<"Soma, subtracao, multiplicacao e divisao de dois numeros.">>),
           inputSchema |-> Obj([type |-> Str(<<"object">>),
                                required |-> Arr(<<Str(<<"op">>), Str(<<"a">>), Str(<<"b">>)>>),
                                properties |-> Obj([
                                    op |-> Obj([type |-> Str(<<"string">>),
                                                enum |-> Arr(ArithmeticOps)]),
                                    a |-> Obj([type |-> Str(<<"number">>)]),
                                    b |-> Obj([type |-> Str(<<"number">>)])])])])>>

\* A template is text pieces and {{key}} placeholders.
prompts ==
    <<Obj([name |-> Str(<<"hello-template">>),
           title |-> Str(<<"Hello Prompt">>),
           description |-> Str(<<"Saudacao com variavel {{name}}">>),
           inputSchema |-> Obj([type |-> Str(<<"object">>),
                                required |-> Arr(<<Str(<<"name">>)>>),
                                properties |-> Obj([name |-> Obj([type |-> Str(<<"string">>)])])]),
           template |-> Str(<<"Ola, ", "{{name}}",
                              "! Bem-vindo ao Servidor MCP de demonstracao.">>)])>>

-----------------------------------------------------------------------------
(* The file system under the roots *)

FileNames == {"hello.txt", "x"}
FileText == Str(<<"Hello from MCP!">>)

\* The components of a path: the runs of atoms between separators.
RECURSIVE Components(_, _)
Components(path, cur) ==
    IF path = <<>> THEN (IF cur = <<>> THEN <<>> ELSE <<cur>>)
    ELSE IF Head(path) = sep
         THEN (IF cur = <<>> THEN <<>> ELSE <<cur>>) \o Components(Tail(path), <<>>)
         ELSE Components(Tail(path), cur \o <<Head(path)>>)

\* Whether fs.readFileSync(path) returns: the path names a regular file
\* directly under demo-root (repeated separators count once; a separator
\* after a file's name makes it fail).
Readable(path, dsk) ==
    /\ path # <<>>
    /\ Head(path) = sep
    /\ path[Len(path)] # sep
    /\ \E f \in dsk : Components(path, <<>>) = <<<<"demo-root">>, <<f>>>>

\* fs.readdirSync(root): the directory's entries, in name order
readdirSync(dsk) == SelectSeq(<<"hello.txt", "x">>, LAMBDA f : f \in dsk)

\* scanResources(): one descriptor per regular file directly under the root
scanResources(dsk) ==
    LET root == ROOTS[1]
        entries == readdirSync(dsk)
    IN  Arr([i \in 1..Len(entries) |->
                Obj([uri |-> Str(<<"file://">> \o root \o <<sep, entries[i]>>),
                     mimeType |-> Str(<<"text/plain">>),
                     name |-> Str(<<entries[i]>>),
                     description |-> Str(<<"Arquivo de demonstracao">>)])])

-----------------------------------------------------------------------------
(* JSON-RPC error codes *)

PARSE_ERROR == -32700
METHOD_NOT_FOUND == -32601
INVALID_PARAMS == -32602
INTERNAL_ERROR == -32603
DIVISION_BY_ZERO == -32000
OUTSIDE_ROOTS == -32001
READ_FAILED == -32002

-----------------------------------------------------------------------------
(* send / reply / error / notify.  A chunk is what one process.stdout.write *)
(* call writes: the JSON text, then the characters of the literal "\\n".    *)

send(message) == [json |-> Stringify(message), tail |-> <<"\\", "n">>]

reply(id, result) ==
    send(Obj([jsonrpc |-> Str(<<"2.0">>), id |-> id, result |-> result]))

error(id, code, message, data) ==
    send(Obj([jsonrpc |-> Str(<<"2.0">>), id |-> id,
              error |-> Obj([code |-> Num(code), message |-> message, data |-> data])]))

notify(method, params) ==
    send(Obj([jsonrpc |-> Str(<<"2.0">>), method |-> method, params |-> params]))

-----------------------------------------------------------------------------
(* What one call of a handler does: the chunks it writes, whether it calls  *)
(* setTimeout, the paths it hands to readFileSync, and whether it throws.   *)

Returns(out) == [out |-> out, timer |-> FALSE, reads |-> <<>>, threw |-> FALSE]
Throws == [out |-> <<>>, timer |-> FALSE, reads |-> <<>>, threw |-> TRUE]

handleInitialize(id, params) ==
    LET clientInfo == Coalesce(OptGet(params, "clientInfo"), EmptyObject)
        result == Obj([protocolVersion |-> PROTOCOL_VERSION,
                       serverInfo |-> Obj([name |-> Str(<<"mcp-server-demo">>),
                                           version |-> Str(<<"0.1.0">>)]),
                       capabilities |-> Obj([
                           tools |-> Obj([listChanged |-> Bool(TRUE)]),
                           resources |-> Obj([listChanged |-> Bool(TRUE)]),
                           prompts |-> Obj([listChanged |-> Bool(TRUE)])])])
    IN  [Returns(<<reply(id, result)>>) EXCEPT !.timer = TRUE]

\* the callback with two of its sends in the other order
listChangedSwapped ==
    <<notify(Str(<<"notifications/resources/list_changed">>), EmptyObject),
      notify(Str(<<"notifications/tools/list_changed">>), EmptyObject),
      notify(Str(<<"notifications/prompts/list_changed">>), EmptyObject)>>

\* the callback handed to setTimeout
listChanged ==
    <<notify(Str(<<"notifications/tools/list_changed">>), EmptyObject),
      notify(Str(<<"notifications/resources/list_changed">>), EmptyObject),
      notify(Str(<<"notifications/prompts/list_changed">>), EmptyObject)>>

handleToolsList(id) == Returns(<<reply(id, Obj([tools |-> Arr(tools)]))>>)

\* b === 0
IsZero(b) == b.t = "number" /\ b.d # 0 /\ b.n = 0

\* switchOp without its test of b: div divides whatever b is
switchOpNoZeroCheck(id, op, a, b) ==
    CASE op = Str(<<"add">>) -> [early |-> FALSE, value |-> JsAdd(a, b)]
      [] op = Str(<<"sub">>) -> [early |-> FALSE, value |-> JsSub(a, b)]
      [] op = Str(<<"mul">>) -> [early |-> FALSE, value |-> JsMul(a, b)]
      [] op = Str(<<"div">>) -> [early |-> FALSE, value |-> JsDiv(a, b)]
      [] OTHER ->
            [early |-> TRUE,
             out |-> error(id, INVALID_PARAMS, Str(<<"Operacao invalida">>),
                           Obj([allowed |-> Arr(ArithmeticOps)]))]

\* switch (op): either the handler returns early with an error, or value is set
switchOp(id, op, a, b) ==
    CASE op = Str(<<"add">>) -> [early |-> FALSE, value |-> JsAdd(a, b)]
      [] op = Str(<<"sub">>) -> [early |-> FALSE, value |-> JsSub(a, b)]
      [] op = Str(<<"mul">>) -> [early |-> FALSE, value |-> JsMul(a, b)]
      [] op = Str(<<"div">>) ->
            IF IsZero(b)
            THEN [early |-> TRUE,
                  out |-> error(id, DIVISION_BY_ZERO, Str(<<"Divisao por zero">>), Undefined)]
            ELSE [early |-> FALSE, value |-> JsDiv(a, b)]
      [] OTHER ->
            [early |-> TRUE,
             out |-> error(id, INVALID_PARAMS, Str(<<"Operacao invalida">>),
                           Obj([allowed |-> Arr(ArithmeticOps)]))]

\* handleToolsCall with its two tests in the other order: the types of a and b
\* are tested before the name of the tool
handleToolsCallArgsFirst(id, params) ==
    LET p == Coalesce(params, EmptyObject)
        name == Get(p, "name")
        q == Coalesce(Get(p, "arguments"), EmptyObject)
        op == Get(q, "op")
        a == Get(q, "a")
        b == Get(q, "b")
    IN  IF a.t # "number" \/ b.t # "number"
        THEN Returns(<<error(id, INVALID_PARAMS, Str(<<"Parametros invalidos">>),
                             Obj([expected |-> Str(<<"numbers a,b">>)]))>>)
        ELSE IF name # Str(<<"calculator_arithmetic">>)
        THEN Returns(<<error(id, METHOD_NOT_FOUND,
                             Str(<<"Tool nao encontrada: ">> \o JsString(name)), Undefined)>>)
        ELSE LET sw == switchOp(id, op, a, b)
             IN  IF sw.early THEN Returns(<<sw.out>>)
                 ELSE Returns(<<reply(id, Obj([
                          content |-> Arr(<<Obj([type |-> Str(<<"text">>),
                                                 text |-> Str(JsString(sw.value))])>>),
                          meta |-> Obj([value |-> sw.value])]))>>)

handleToolsCall(id, params) ==
    LET p == Coalesce(params, EmptyObject)
        name == Get(p, "name")
        args == Get(p, "arguments")
    IN  IF name = Str(<<"calculator_arithmetic">>)
        THEN LET q == Coalesce(args, EmptyObject)
                 op == Get(q, "op")
                 a == Get(q, "a")
                 b == Get(q, "b")
             IN  IF a.t # "number" \/ b.t # "number"
                 THEN Returns(<<error(id, INVALID_PARAMS, Str(<<"Parametros invalidos">>),
                                      Obj([expected |-> Str(<<"numbers a,b">>)]))>>)
                 ELSE LET sw == switchOp(id, op, a, b)
                      IN  IF sw.early THEN Returns(<<sw.out>>)
                          ELSE Returns(<<reply(id, Obj([
                                   content |-> Arr(<<Obj([type |-> Str(<<"text">>),
                                                          text |-> Str(JsString(sw.value))])>>),
                                   meta |-> Obj([value |-> sw.value])]))>>)
        ELSE Returns(<<error(id, METHOD_NOT_FOUND,
                             Str(<<"Tool nao encontrada: ">> \o JsString(name)), Undefined)>>)

handleResourcesList(id, dsk) ==
    Returns(<<reply(id, Obj([resources |-> scanResources(dsk)]))>>)

\* allowed with the root alone as the prefix, without the separator
allowedNoSep(filePath) ==
    \E i \in 1..Len(ROOTS) : StartsWith(filePath, ROOTS[i])

\* ROOTS.some(root => filePath.startsWith(root + path.sep))
allowed(filePath) ==
    \E i \in 1..Len(ROOTS) : StartsWith(filePath, ROOTS[i] \o <<sep>>)

handleResourcesRead(id, params, dsk) ==
    LET uri == OptGet(params, "uri")
    IN  IF Falsy(uri)
        THEN Returns(<<error(id, INVALID_PARAMS, Str(<<"URI invalida. Use file://">>), Undefined)>>)
        ELSE IF uri.t # "string" THEN Throws         \* uri.startsWith is not a function
        ELSE IF ~StartsWith(uri.s, <<"file://">>)
        THEN Returns(<<error(id, INVALID_PARAMS, Str(<<"URI invalida. Use file://">>), Undefined)>>)
        ELSE LET filePath == ReplaceFirst(uri.s, "file://")
             IN  IF ~allowed(filePath)
                 THEN Returns(<<error(id, OUTSIDE_ROOTS,
                                      Str(<<"Fora das raizes permitidas (roots).">>), Undefined)>>)
                 ELSE [Returns(<<
                          IF Readable(filePath, dsk)
                          THEN reply(id, Obj([contents |-> Arr(<<Obj([
                                   mimeType |-> Str(<<"text/plain">>),
                                   uri |-> uri,
                                   text |-> FileText])>>)]))
                          ELSE error(id, READ_FAILED, Str(<<"Falha ao ler recurso">>),
                                     Obj([message |-> Str(<<"ENOENT">>)]))>>)
                       EXCEPT !.reads = <<filePath>>]

handlePromptsList(id) ==
    Returns(<<reply(id, Obj([prompts |-> Arr([i \in 1..Len(prompts) |->
        Obj([name |-> prompts[i].f.name, title |-> prompts[i].f.title,
             description |-> prompts[i].f.description,
             inputSchema |-> prompts[i].f.inputSchema])])]))>>)

\* the keys the regular expression \{\{(\w+)\}\} captures, by placeholder
Placeholders == [a \in {"{{name}}", "{{title}}"} |-> IF a = "{{name}}" THEN "name" ELSE "title"]

\* render with the fallback of the replacement left out: a null or undefined
\* argument leaves its placeholder in the text
RECURSIVE renderKeepsNullish(_, _)
renderKeepsNullish(template, pvars) ==
    IF template = <<>> THEN <<>>
    ELSE (IF Head(template) \in DOMAIN Placeholders
             /\ ~Nullish(Get(pvars, Placeholders[Head(template)]))
          THEN JsString(Get(pvars, Placeholders[Head(template)]))
          ELSE <<Head(template)>>)
         \o renderKeepsNullish(Tail(template), pvars)

\* template.replace(/\{\{(\w+)\}\}/g, (_, k) => String(vars[k] ?? ""))
RECURSIVE render(_, _)
render(template, pvars) ==
    IF template = <<>> THEN <<>>
    ELSE (IF Head(template) \in DOMAIN Placeholders
          THEN JsString(Coalesce(Get(pvars, Placeholders[Head(template)]), Str(<<>>)))
          ELSE <<Head(template)>>)
         \o render(Tail(template), pvars)

handlePromptsGet(id, params) ==
    LET name == OptGet(params, "name")
        found == {i \in 1..Len(prompts) : prompts[i].f.name = name}
    IN  IF found = {}
        THEN Returns(<<error(id, METHOD_NOT_FOUND,
                             Str(<<"Prompt nao encontrado: ">> \o JsString(name)), Undefined)>>)
        ELSE LET prompt == prompts[CHOOSE i \in found : \A j \in found : i <= j]
                 pvars == Coalesce(OptGet(params, "arguments"), EmptyObject)
                 required == prompt.f.inputSchema.f.required
             IN  IF InThrows(pvars) THEN Throws       \* "k in vars" on a primitive
                 ELSE IF \E i \in 1..Len(required.a) : ~In(required.a[i].s[1], pvars)
                 THEN Returns(<<error(id, INVALID_PARAMS,
                                      Str(<<"Argumentos ausentes para o prompt">>),
                                      Obj([required |-> required]))>>)
                 ELSE Returns(<<reply(id, Obj([prompt |-> Obj([
                          name |-> prompt.f.name,
                          messages |-> Arr(<<Obj([
                              role |-> Str(<<"system">>),
                              content |-> Str(render(prompt.f.template.s, pvars))])>>)])]))>>)

-----------------------------------------------------------------------------
(* The validators: the structural validator and the provider that compiles   *)
(* with it when the ajv package cannot be loaded.  A call of the validator   *)
(* yields its verdict and the error records it pushed, in order.             *)

\* the characters of the property names the model uses
KeyChars ==
    ("a" :> <<"a">>) @@ ("b/c" :> <<"b", "/", "c">>) @@ ("m~n" :> <<"m", "~", "n">>)

\* the order in which the schemas of the model list their properties, which
\* is the order of Object.entries
KeyOrder == <<"a", "b/c", "m~n">>

\* s.replace(/c/g, by), on the characters of s
RECURSIVE ReplaceAll(_, _, _)
ReplaceAll(s, c, by) ==
    IF s = <<>> THEN <<>>
    ELSE (IF Head(s) = c THEN by ELSE <<Head(s)>>) \o ReplaceAll(Tail(s), c, by)

escapeJsonPointer(str) ==
    ReplaceAll(ReplaceAll(KeyChars[str], "~", <<"~", "0">>), "/", <<"~", "1">>)

\* the record pushed when the type of the value is not the one of the schema
typeError(path, type) ==
    Obj([instancePath |-> Str(path),
         keyword |-> Str(<<"type">>),
         params |-> Obj([type |-> Str(<<type>>)]),
         message |-> Str(<<"must be ", type>>)])

\* the loop over required with a break after the first missing key
requiredErrorsFirstOnly(value, required, path) ==
    LET missing == SelectSeq(required.a, LAMBDA key : ~In(key.s[1], value))
    IN  [k \in 1..(IF missing = <<>> THEN 0 ELSE 1) |->
            Obj([instancePath |-> Str(path),
                 keyword |-> Str(<<"required">>),
                 params |-> Obj([missingProperty |-> missing[k]]),
                 message |-> Str(<<"must have required property '", missing[k].s[1], "'">>)])]

\* for (const key of required): one record for each key that is not in value
requiredErrors(value, required, path) ==
    LET missing == SelectSeq(required.a, LAMBDA key : ~In(key.s[1], value))
    IN  [k \in 1..Len(missing) |->
            Obj([instancePath |-> Str(path),
                 keyword |-> Str(<<"required">>),
                 params |-> Obj([missingProperty |-> missing[k]]),
                 message |-> Str(<<"must have required property '", missing[k].s[1], "'">>)])]

\* schema.enum.includes(value): SameValueZero, so that an object or an array
\* is equal to nothing but itself
includes(enum, value) ==
    /\ value.t \notin {"object", "array"}
    /\ \E k \in 1..Len(enum.a) : enum.a[k] = value

enumError(path, enum) ==
    Obj([instancePath |-> Str(path),
         keyword |-> Str(<<"enum">>),
         params |-> Obj([allowedValues |-> enum]),
         message |-> Str(<<"must be equal to one of the allowed values">>)])

\* the errors of a sequence of calls, in order
RECURSIVE Pushed(_)
Pushed(calls) ==
    IF calls = <<>> THEN <<>> ELSE Head(calls).errors \o Pushed(Tail(calls))

RECURSIVE validateAgainstSchema(_, _, _)

\* for (const [key, childSchema] of Object.entries(properties)): the calls
\* made for the properties that are in value
checkProperties(value, properties, path) ==
    LET keys == SelectSeq(KeyOrder, LAMBDA key : key \in DOMAIN properties.f /\ In(key, value))
    IN  [k \in 1..Len(keys) |->
            validateAgainstSchema(
                value.f[keys[k]], properties.f[keys[k]],
                IF path # <<>> THEN path \o <<"/">> \o escapeJsonPointer(keys[k])
                ELSE <<"/">> \o escapeJsonPointer(keys[k]))]

\* valid is what the function returns, errors what it pushed
validateAgainstSchema(value, schema, path) ==
    IF Falsy(schema) THEN [valid |-> TRUE, errors |-> <<>>]
    ELSE IF Get(schema, "type") = Str(<<"object">>)
    THEN IF value.t # "object"
         THEN [valid |-> FALSE, errors |-> <<typeError(path, "object")>>]
         ELSE LET required == IF Get(schema, "required").t = "array"
                              THEN Get(schema, "required") ELSE Arr(<<>>)
                  missing == requiredErrors(value, required, path)
                  properties == Coalesce(Get(schema, "properties"), EmptyObject)
                  children == checkProperties(value, properties, path)
              IN  [valid |-> missing = <<>> /\ \A k \in 1..Len(children) : children[k].valid,
                   errors |-> missing \o Pushed(children)]
    ELSE LET badType ==
                 IF Get(schema, "type") = Str(<<"number">>)
                 THEN value.t # "number" \/ value = NaN
                 ELSE IF Get(schema, "type") = Str(<<"string">>)
                 THEN value.t # "string"
                 ELSE FALSE
             enum == Get(schema, "enum")
             badEnum == ~Falsy(enum) /\ ~includes(enum, value)
         IN  [valid |-> ~badType /\ ~badEnum,
              errors |-> (IF badType THEN <<typeError(path, Get(schema, "type").s[1])>> ELSE <<>>)
                         \o (IF badEnum THEN <<enumError(path, enum)>> ELSE <<>>)]

\* the function object createSimpleValidator returns: its schema and its
\* errors property
createSimpleValidator(schema) == [schema |-> schema, errors |-> Null]

\* validate(data) with the list of errors kept as it is, empty or not
validateKeepsEmptyList(v, data) ==
    LET r == validateAgainstSchema(data, v.schema, <<>>)
    IN  [isValid |-> r.valid, errors |-> Arr(r.errors)]

\* validate(data): what it returns and what it leaves in validate.errors
validate(v, data) ==
    LET r == validateAgainstSchema(data, v.schema, <<>>)
    IN  [isValid |-> r.valid,
         errors |-> IF Len(r.errors) # 0 THEN Arr(r.errors) ELSE Null]

\* compile of the class that stands in for Ajv when import('ajv') fails
compile(schema) == createSimpleValidator(schema)

\* The verdict of a validator compiled by the ajv package, for a schema of
\* the subset: every keyword of the schema constrains the value on its own,
\* required and properties constrain objects only, and enum compares by
\* content.
RECURSIVE ajvValidate(_, _)
ajvValidate(value, schema) ==
    /\ \/ Get(schema, "type") = Undefined
       \/ Get(schema, "type") = Str(<<"object">>) /\ value.t = "object"
       \/ Get(schema, "type") = Str(<<"number">>) /\ value.t = "number"
       \/ Get(schema, "type") = Str(<<"string">>) /\ value.t = "string"
    /\ \/ Get(schema, "required") = Undefined
       \/ value.t # "object"
       \/ \A k \in 1..Len(Get(schema, "required").a) :
             In(Get(schema, "required").a[k].s[1], value)
    /\ \/ Get(schema, "properties") = Undefined
       \/ value.t # "object"
       \/ \A key \in DOMAIN Get(schema, "properties").f :
             In(key, value) => ajvValidate(value.f[key], Get(schema, "properties").f[key])
    /\ \/ Get(schema, "enum") = Undefined
       \/ \E k \in 1..Len(Get(schema, "enum").a) : Get(schema, "enum").a[k] = value

-----------------------------------------------------------------------------
(* The JSON-RPC loop *)

\* methodNotFound without its test of id: the error is sent in either case
methodNotFoundAlways(id, method) ==
    Returns(<<error(id, METHOD_NOT_FOUND,
                    Str(<<"Method not found: ">> \o JsString(method)), Undefined)>>)

\* default: of the switch
methodNotFound(id, method) ==
    IF id # Undefined
    THEN Returns(<<error(id, METHOD_NOT_FOUND,
                         Str(<<"Method not found: ">> \o JsString(method)), Undefined)>>)
    ELSE Returns(<<>>)

\* switch (method), inside the try block
dispatch(id, method, params, dsk) ==
    CASE method = Str(<<"initialize">>) -> handleInitialize(id, params)
      [] method = Str(<<"tools/list">>) -> handleToolsList(id)
      [] method = Str(<<"tools/call">>) -> handleToolsCall(id, params)
      [] method = Str(<<"resources/list">>) -> handleResourcesList(id, dsk)
      [] method = Str(<<"resources/read">>) -> handleResourcesRead(id, params, dsk)
      [] method = Str(<<"prompts/list">>) -> handlePromptsList(id)
      [] method = Str(<<"prompts/get">>) -> handlePromptsGet(id, params)
      [] OTHER -> methodNotFound(id, method)

\* catch (err): what the try block did, then the internal error if there is an id
catch(id, r) ==
    IF ~r.threw THEN r
    ELSE IF id # Undefined
    THEN [r EXCEPT !.threw = FALSE,
                   !.out = @ \o <<error(id, INTERNAL_ERROR, Str(<<"Internal error">>),
                                        Obj([message |-> Str(<<"TypeError">>)]))>>]
    ELSE [r EXCEPT !.threw = FALSE]

\* The 'line' listener.  A line is blank, or text JSON.parse rejects, or the
\* text of a JSON value v.  threw = TRUE in the result: the listener threw.
onLine(line, dsk) ==
    IF line.k = "blank" THEN Returns(<<>>)
    ELSE IF line.k = "garbage"
    THEN Returns(<<send(Obj([jsonrpc |-> Str(<<"2.0">>),
                             error |-> Obj([code |-> Num(PARSE_ERROR),
                                            message |-> Str(<<"Parse error">>)])]))>>)
    ELSE LET msg == line.v
         IN  IF Nullish(msg) THEN Throws     \* const { id, method, params } = null
             ELSE LET id == Get(msg, "id")
                      method == Get(msg, "method")
                      params == Get(msg, "params")
                  IN  catch(id, dispatch(id, method, params, dsk))

\* the chunks as they stand in stdout: with the line (by = "line") or the
\* initialize request (by = "timer") that caused them
Written(out, by, src) ==
    [i \in 1..Len(out) |-> [json |-> out[i].json, tail |-> out[i].tail, by |-> by, src |-> src]]

\* the listener with its writes delivered ahead of what was written before:
\* the answer to a line overtakes the answers to the lines before it
OnLineOvertaking ==
    /\ proc = "running"
    /\ pos < Len(input)
    /\ LET r == onLine(input[pos + 1], disk)
       IN  /\ stdout' = Written(r.out, "line", pos + 1) \o stdout
           /\ timers' = IF r.timer THEN Append(timers, pos + 1) ELSE timers
           /\ reads' = reads \o [i \in 1..Len(r.reads) |-> [path |-> r.reads[i], src |-> pos + 1]]
           /\ proc' = IF r.threw THEN "crashed" ELSE "running"
    /\ pos' = pos + 1
    /\ UNCHANGED <<input, disk, validator, last>>

\* rl.on('line', ...): the next line of stdin is handled, to completion.  An
\* exception leaving the listener is uncaught and ends the process.
OnLine ==
    /\ proc = "running"
    /\ pos < Len(input)
    /\ LET r == onLine(input[pos + 1], disk)
       IN  /\ stdout' = stdout \o Written(r.out, "line", pos + 1)
           /\ timers' = IF r.timer THEN Append(timers, pos + 1) ELSE timers
           /\ reads' = reads \o [i \in 1..Len(r.reads) |-> [path |-> r.reads[i], src |-> pos + 1]]
           /\ proc' = IF r.threw THEN "crashed" ELSE "running"
    /\ pos' = pos + 1
    /\ UNCHANGED <<input, disk, validator, last>>

\* the callback with a yield between its three sends: each step sends the next
\* notification of the oldest pending initialize
OnTimeoutOneByOne ==
    /\ proc = "running"
    /\ timers # <<>>
    /\ LET sent == Len(SelectSeq(stdout, LAMBDA c : c.by = "timer" /\ c.src = Head(timers)))
       IN  /\ stdout' = stdout \o Written(<<listChanged[sent + 1]>>, "timer", Head(timers))
           /\ timers' = IF sent + 1 = Len(listChanged) THEN Tail(timers) ELSE timers
    /\ UNCHANGED <<proc, input, pos, disk, reads, validator, last>>

\* the setTimeout callback of the oldest pending initialize
OnTimeout ==
    /\ proc = "running"
    /\ timers # <<>>
    /\ stdout' = stdout \o Written(listChanged, "timer", Head(timers))
    /\ timers' = Tail(timers)
    /\ UNCHANGED <<proc, input, pos, disk, reads, validator, last>>

\* process.on('SIGINT', () => process.exit(0))
OnSigint ==
    /\ proc = "running"
    /\ proc' = "exited"
    /\ UNCHANGED <<input, pos, stdout, timers, disk, reads, validator, last>>

\* the client writes one more line to the server's stdin
Write(line) ==
    /\ proc = "running"
    /\ Len(input) < MaxLines
    /\ input' = Append(input, line)
    /\ UNCHANGED <<proc, pos, stdout, timers, disk, reads, validator, last>>

\* no call of the validator yet
NoCall == [called |-> FALSE]

\* ajv.compile(schema) under the provider that stands in for the package
Compile(schema) ==
    /\ validator = Undefined
    /\ validator' = compile(schema)
    /\ UNCHANGED <<proc, input, pos, stdout, timers, disk, reads, last>>

\* validate(data)
Call(data) ==
    /\ validator # Undefined
    /\ LET r == validate(validator, data)
       IN  /\ validator' = [validator EXCEPT !.errors = r.errors]
           /\ last' = [called |-> TRUE, data |-> data,
                       before |-> validator.errors, isValid |-> r.isValid]
    /\ UNCHANGED <<proc, input, pos, stdout, timers, disk, reads>>

-----------------------------------------------------------------------------
(* The lines a client may write *)

Blank == [k |-> "blank"]
Garbage == [k |-> "garbage"]
Json(v) == [k |-> "json", v |-> v]

\* an object literal as the client serializes it: absent members are left out
Defined(f) == [k \in {x \in DOMAIN f : f[x] # Undefined} |-> f[k]]

Request(id, method, params) ==
    Json(Obj(Defined([jsonrpc |-> Str(<<"2.0">>), id |-> id,
                      method |-> method, params |-> params])))

CallParams(name, args) == Obj(Defined([name |-> name, arguments |-> args]))
CalcArgs(op, a, b) == Obj(Defined([op |-> op, a |-> a, b |-> b]))
Calculator == Str(<<"calculator_arithmetic">>)
HelloTemplate == Str(<<"hello-template">>)
HelloUri == Str(<<"file://">> \o ROOTS[1] \o <<sep, "hello.txt">>)

Ids == {Undefined, Num(1)}

\* a sample of every route of the dispatcher, as <<method, params>>
Samples ==
    {<<Str(<<"initialize">>), Undefined>>,
     <<Str(<<"tools/list">>), Undefined>>,
     <<Str(<<"resources/list">>), Undefined>>,
     <<Str(<<"prompts/list">>), Undefined>>,
     <<Str(<<"tools/call">>), CallParams(Calculator, CalcArgs(Str(<<"add">>), Num(2), Num(3)))>>,
     <<Str(<<"tools/call">>), CallParams(Calculator, CalcArgs(Str(<<"div">>), Num(1), Num(0)))>>,
     <<Str(<<"tools/call">>), CallParams(Str(<<"nope">>), Undefined)>>,
     <<Str(<<"resources/read">>), Obj([uri |-> HelloUri])>>,
     <<Str(<<"resources/read">>), Obj([uri |-> Num(5)])>>,
     <<Str(<<"resources/read">>), Undefined>>,
     <<Str(<<"prompts/get">>), CallParams(HelloTemplate, Obj([name |-> Str(<<"Luis">>)]))>>,
     <<Str(<<"prompts/get">>), CallParams(HelloTemplate, Str(<<"Luis">>))>>,
     <<Str(<<"prompts/get">>), CallParams(HelloTemplate, Undefined)>>,
     <<Str(<<"foo">>), Undefined>>,
     <<Undefined, Undefined>>}

Lines ==
    {Blank, Garbage, Json(Null), Json(Num(5)), Json(Str(<<"abc">>)), Json(Arr(<<>>))}
    \cup {Request(id, s[1], s[2]) : id \in Ids, s \in Samples}
    \cup {Request(Null, Str(<<"foo">>), Undefined)}

\* tools/call, every shape of the parameters
NumVals == {Num(n) : n \in (-1..MaxNum) \cup {6}} \cup {MAX_VALUE, Neg(MAX_VALUE)}
ArgVals == NumVals \cup {Undefined, Null, Str(<<"1">>)}
OpVals == {Str(<<"add">>), Str(<<"sub">>), Str(<<"mul">>), Str(<<"div">>), Str(<<"pow">>), Undefined}

CalcLines ==
    {Request(id, Str(<<"tools/call">>), CallParams(Calculator, CalcArgs(op, a, b))) :
        id \in Ids, op \in OpVals, a \in ArgVals, b \in ArgVals}
    \cup {Request(id, Str(<<"tools/call">>), p) :
            id \in Ids,
            p \in {Undefined, Null, Str(<<"abc">>),
                   CallParams(Undefined, Undefined),
                   CallParams(Str(<<"nope">>), CalcArgs(Str(<<"add">>), Num(1), Num(1))),
                   CallParams(Str(<<"nope">>), CalcArgs(Str(<<"div">>), Num(1), Num(0))),
                   CallParams(Str(<<"nope">>), CalcArgs(Str(<<"pow">>), Undefined, Null)),
                   CallParams(Calculator, Undefined),
                   CallParams(Calculator, Null),
                   CallParams(Calculator, Str(<<"abc">>)),
                   CallParams(Calculator, Arr(<<>>))}}

\* resources/read, every uri over a small alphabet
PathAtoms == {sep, "demo-root", "x", "hello.txt"}
Paths == UNION {[1..n -> PathAtoms] : n \in 0..MaxPathLen}
UriVals ==
    {Str(p) : p \in Paths} \cup {Str(<<"file://">> \o p) : p \in Paths}
    \cup {Undefined, Null, Num(0), Num(5), Bool(TRUE), Bool(FALSE), Arr(<<>>), EmptyObject}

ReadLines ==
    {Request(id, Str(<<"resources/read">>), Obj(Defined([uri |-> u]))) :
        id \in Ids, u \in UriVals}
    \cup {Request(id, Str(<<"resources/read">>), p) :
            id \in Ids, p \in {Undefined, Null, Str(<<"abc">>)}}

\* prompts/get, every shape of the name and of the arguments
NameVals ==
    {Undefined, Null, Str(<<"Luis">>), Str(<<>>), Str(<<"{{name}}">>), Str(<<"{{title}}">>),
     Num(7), Bool(FALSE), EmptyObject, Arr(<<>>)}
ArgumentsVals ==
    {Obj(Defined([name |-> v, title |-> w])) : v \in NameVals, w \in {Undefined, Str(<<"Dr">>)}}
    \cup {Undefined, Null, Str(<<"Luis">>), Str(<<>>), Num(5), Bool(TRUE), Arr(<<>>)}

PromptLines ==
    {Request(id, Str(<<"prompts/get">>), CallParams(n, a)) :
        id \in Ids, n \in {HelloTemplate, Str(<<"nope">>), Undefined, Num(5)},
        a \in ArgumentsVals}
    \cup {Request(id, Str(<<"prompts/get">>), p) :
            id \in Ids, p \in {Undefined, Null, Str(<<"abc">>)}}

\* the other routes
OtherLines ==
    {Request(id, m, p) :
        id \in Ids,
        m \in {Str(<<"initialize">>), Str(<<"tools/list">>), Str(<<"resources/list">>),
               Str(<<"prompts/list">>), Str(<<"foo">>), Undefined},
        p \in {Undefined, Null, Str(<<"abc">>),
               Obj([clientInfo |-> Obj([name |-> Str(<<"test-client">>)])])}}

RequestLines == CalcLines \cup ReadLines \cup PromptLines \cup OtherLines

-----------------------------------------------------------------------------
(* Specifications *)

Init ==
    /\ proc = "running"
    /\ input = <<>>
    /\ pos = 0
    /\ stdout = <<>>
    /\ timers = <<>>
    /\ disk \in {{}, {"hello.txt"}}
    /\ reads = <<>>
    /\ validator = Undefined
    /\ last = NoCall

Next ==
    \/ \E line \in Lines : Write(line)
    \/ OnLine
    \/ OnTimeout
    \/ OnSigint

\* The server under any client: up to MaxLines lines, a sample of each route.
Spec == Init /\ [][Next]_vars

\* The lines that matter to the timers: initialize as a request and as a
\* notification, another request, and the lines that end in an error or in
\* the end of the process.
TimerLines ==
    {Request(id, Str(<<"initialize">>), Undefined) : id \in Ids}
    \cup {Request(Num(1), Str(<<"tools/list">>), Undefined), Json(Null), Garbage}

NextTimer ==
    \/ \E line \in TimerLines : Write(line)
    \/ OnLine
    \/ OnTimeout
    \/ OnSigint

\* The server with the timers of a live process firing: a callback handed to
\* setTimeout runs once its delay has passed, unless the process has ended by
\* then.
SpecTimer == Init /\ [][NextTimer]_vars /\ WF_vars(OnTimeout)

\* The schemas of the subset: type, required, enum and properties, each one
\* present or not, with schemas of the same kind under the properties.
Schema(type, required, enum, properties) ==
    Obj(Defined([type |-> type, required |-> required, enum |-> enum,
                 properties |-> properties]))

Types == {Undefined, Str(<<"object">>), Str(<<"string">>), Str(<<"number">>)}
Requireds == {Undefined, Arr(<<Str(<<"a">>)>>), Arr(<<Str(<<"a">>), Str(<<"b/c">>)>>)}
Enums == {Undefined, Arr(<<Str(<<"x">>), Num(1), EmptyObject>>)}

InnerSchemas ==
    {Schema(t, Undefined, e, Undefined) : t \in Types, e \in Enums}
    \cup {Schema(t, Arr(<<Str(<<"m~n">>)>>), Undefined,
                 Obj("m~n" :> Schema(Str(<<"string">>), Undefined, Undefined, Undefined))) :
             t \in {Undefined, Str(<<"object">>)}}

PropertiesVals ==
    {Undefined}
    \cup {Obj("a" :> s) : s \in InnerSchemas}
    \cup {Obj("m~n" :> Schema(Str(<<"string">>), Undefined, Undefined, Undefined))}
    \cup {Obj(("a" :> s) @@ ("b/c" :> Schema(Str(<<"number">>), Undefined, Undefined, Undefined))) :
             s \in {Schema(Str(<<"string">>), Undefined, Undefined, Undefined),
                    Schema(Str(<<"object">>), Arr(<<Str(<<"m~n">>)>>), Undefined, Undefined)}}

Schemas ==
    {Schema(t, r, e, p) : t \in Types, r \in Requireds, e \in Enums, p \in PropertiesVals}

\* The values handed to a validator: the values of JSON over the same keys,
\* and the two values a caller can hand over that JSON cannot write.
InnerValues ==
    {Null, Num(1), Num(2), Str(<<"x">>), Str(<<"y">>), Arr(<<>>), EmptyObject,
     Obj("m~n" :> Str(<<"x">>)), Obj("m~n" :> Num(1))}

JsonValues ==
    InnerValues
    \cup {Bool(TRUE)}
    \cup {Obj("a" :> v) : v \in InnerValues \ {Num(2), Arr(<<>>)}}
    \cup {Obj("b/c" :> v) : v \in {Num(1), Str(<<"x">>)}}
    \cup {Obj(("a" :> v) @@ ("b/c" :> w)) :
             v \in {Str(<<"x">>), Num(1), EmptyObject}, w \in {Num(1), Str(<<"x">>)}}

Values == JsonValues \cup {Undefined, NaN}

NextValidator ==
    \/ \E schema \in Schemas : Compile(schema)
    \/ \E data \in Values : Call(data)

\* A validator compiled once by the fallback provider and called any number
\* of times.
SpecValidator == Init /\ [][NextValidator]_vars

\* One request, of every shape, waiting in stdin when the server starts.
InitRequest ==
    /\ proc = "running"
    /\ input \in {<<line>> : line \in RequestLines}
    /\ pos = 0
    /\ stdout = <<>>
    /\ timers = <<>>
    /\ disk \in SUBSET FileNames
    /\ reads = <<>>
    /\ validator = Undefined
    /\ last = NoCall

NextRequest == OnLine \/ OnTimeout

SpecRequest == InitRequest /\ [][NextRequest]_vars

-----------------------------------------------------------------------------
(* What the properties speak of *)

\* the chunks line i caused, in output order
OutOf(i) == SelectSeq(stdout, LAMBDA c : c.by = "line" /\ c.src = i)
\* the paths line i handed to readFileSync
ReadsOf(i) == SelectSeq(reads, LAMBDA r : r.src = i)

IsJson(i) == input[i].k = "json"
\* a line whose text is a JSON value the listener can take apart
IsMessage(i) == IsJson(i) /\ ~Nullish(input[i].v)
LineId(i) == IF IsJson(i) THEN Get(input[i].v, "id") ELSE Undefined
Method(i) == Get(input[i].v, "method")
Params(i) == Get(input[i].v, "params")
Arguments(i) == OptGet(Params(i), "arguments")
HasId(i) == LineId(i) # Undefined

IsResult(c) == "result" \in DOMAIN c.json.f
IsError(c) == "error" \in DOMAIN c.json.f
Code(c) == c.json.f.error.f.code.n

\* line i caused one chunk and no more: an error of this code
OneError(i, code) ==
    /\ Len(OutOf(i)) = 1
    /\ IsError(OutOf(i)[1])
    /\ ~IsResult(OutOf(i)[1])
    /\ Code(OutOf(i)[1]) = code

RoutedMethods ==
    {Str(<<"initialize">>), Str(<<"tools/list">>), Str(<<"tools/call">>),
     Str(<<"resources/list">>), Str(<<"resources/read">>), Str(<<"prompts/list">>),
     Str(<<"prompts/get">>)}

IsCalculatorCall(i) ==
    /\ IsMessage(i)
    /\ Method(i) = Str(<<"tools/call">>)
    /\ OptGet(Params(i), "name") = Calculator
ArgOp(i) == OptGet(Arguments(i), "op")
ArgA(i) == OptGet(Arguments(i), "a")
ArgB(i) == OptGet(Arguments(i), "b")

-----------------------------------------------------------------------------
(* C1 *)

\* line i caused exactly one message carrying its id: a result or an error
Answered(i) ==
    LET o == SelectSeq(OutOf(i), LAMBDA c : Get(c.json, "id") = LineId(i))
    IN  Len(o) = 1 /\ (IsResult(o[1]) # IsError(o[1]))

\* C1: once the server has taken every line written to it, or has stopped on
\* its own, every input line that parses to a request with an id has caused
\* exactly one message carrying that id, with either a result or an error.
C1_EveryRequestAnswered ==
    (proc = "crashed" \/ pos = Len(input)) =>
        \A i \in 1..Len(input) : HasId(i) => Answered(i)

-----------------------------------------------------------------------------
(* C2 *)

\* C2: a message without an id (a notification) causes no error message,
\* whatever its method and params.
C2_NotificationsCauseNoError ==
    \A i \in 1..pos :
        (IsJson(i) /\ input[i].v.t = "object" /\ ~HasId(i)) =>
            \A k \in 1..Len(OutOf(i)) : ~IsError(OutOf(i)[k])

-----------------------------------------------------------------------------
(* C3 *)

\* C3: a message whose method is none of the seven routed ones causes exactly
\* one error, of code -32601, when it has an id, and no output when it has none.
C3_UnknownMethod ==
    \A i \in 1..pos :
        (IsMessage(i) /\ Method(i) \notin RoutedMethods) =>
            IF HasId(i)
            THEN OneError(i, -32601) /\ Get(OutOf(i)[1].json, "id") = LineId(i)
            ELSE OutOf(i) = <<>>

\* both cases have been handled: an unknown method with an id, and one without
C3_Witness ==
    \E i, j \in 1..pos :
        /\ IsMessage(i) /\ Method(i) \notin RoutedMethods /\ HasId(i) /\ Len(OutOf(i)) = 1
        /\ IsMessage(j) /\ Method(j) \notin RoutedMethods /\ ~HasId(j)

-----------------------------------------------------------------------------
(* C4 *)

\* C4: no input line stops the loop (the process never ends on an uncaught
\* exception), and a line that is not JSON causes one -32700 parse error.
C4_NoLineStopsTheLoop ==
    /\ proc # "crashed"
    /\ \A i \in 1..pos : input[i].k = "garbage" => OneError(i, -32700)

-----------------------------------------------------------------------------
(* C5 *)

\* C5: every message is written as one output line: the JSON text followed by
\* a single newline character.
C5_OneLinePerMessage ==
    \A k \in 1..Len(stdout) : stdout[k].tail = <<"\n">>

-----------------------------------------------------------------------------
(* C6 *)

IsDivByZero(i) ==
    /\ IsCalculatorCall(i)
    /\ ArgOp(i) = Str(<<"div">>)
    /\ ArgA(i).t = "number"
    /\ ArgB(i) = Num(0)

\* C6: dividing by zero is answered by the error -32000 and by no result.
C6_DivisionByZero ==
    \A i \in 1..pos : IsDivByZero(i) => OneError(i, -32000)

C6_Witness ==
    \E i \in 1..pos : IsDivByZero(i) /\ ArgA(i) = Num(1) /\ Len(OutOf(i)) = 1

-----------------------------------------------------------------------------
(* C7 *)

\* op on a and b in the reals
Exact(op, a, b) ==
    CASE op = Str(<<"add">>) -> RealAdd(a, b)
      [] op = Str(<<"sub">>) -> RealAdd(a, Neg(b))
      [] op = Str(<<"mul">>) -> RealMul(a, b)
      [] op = Str(<<"div">>) -> RealDiv(a, b)

\* a well-formed arithmetic call whose exact result is a real of the model
\* (a sum or difference of operands of different magnitude is not)
IsArithmetic(i) ==
    /\ IsCalculatorCall(i)
    /\ ArgOp(i) \in {Str(<<"add">>), Str(<<"sub">>), Str(<<"mul">>), Str(<<"div">>)}
    /\ ArgA(i).t = "number"
    /\ ArgB(i).t = "number"
    /\ ArgOp(i) = Str(<<"div">>) => ArgB(i).n # 0
    /\ ArgOp(i) \in {Str(<<"add">>), Str(<<"sub">>)} => ArgA(i).h = ArgB(i).h

\* C7: a well-formed arithmetic call is answered by one result whose
\* meta.value is the arithmetic result of op on a and b and whose content is
\* one text item, the string form of that value.
C7_ArithmeticResult ==
    \A i \in 1..pos :
        IsArithmetic(i) =>
            LET value == Exact(ArgOp(i), ArgA(i), ArgB(i))
            IN  /\ Len(OutOf(i)) = 1
                /\ IsResult(OutOf(i)[1])
                /\ OutOf(i)[1].json.f.result =
                      Obj([content |-> Arr(<<Obj([type |-> Str(<<"text">>),
                                                  text |-> Str(NumberToString(value))])>>),
                           meta |-> Obj([value |-> value])])

-----------------------------------------------------------------------------
(* C8 *)

\* a request whose required parameter is missing or of the wrong type
HasBadParams(i) ==
    /\ IsMessage(i)
    /\ \/ /\ IsCalculatorCall(i)
          /\ (ArgA(i).t # "number" \/ ArgB(i).t # "number")
       \/ /\ Method(i) = Str(<<"resources/read">>)
          /\ OptGet(Params(i), "uri").t # "string"
       \/ /\ Method(i) = Str(<<"prompts/get">>)
          /\ OptGet(Params(i), "name") = HelloTemplate
          /\ (Arguments(i).t # "object" \/ "name" \notin DOMAIN Arguments(i).f)

\* C8: a request with an id whose required parameter is missing or of the
\* wrong type is answered by the error -32602.
C8_BadParamsAreInvalidParams ==
    \A i \in 1..pos : (HasId(i) /\ HasBadParams(i)) => OneError(i, -32602)

-----------------------------------------------------------------------------
(* C9 *)

\* C9: every error of code -32602 carries a data field.
C9_InvalidParamsCarryData ==
    \A k \in 1..Len(stdout) :
        (IsError(stdout[k]) /\ Code(stdout[k]) = -32602) =>
            "data" \in DOMAIN stdout[k].json.f.error.f

-----------------------------------------------------------------------------
(* C10 *)

\* the path begins with some root followed at once by the separator
UnderRoot(path) ==
    \E r \in 1..Len(ROOTS) :
        /\ Len(path) > Len(ROOTS[r])
        /\ \A k \in 1..Len(ROOTS[r]) : path[k] = ROOTS[r][k]
        /\ path[Len(ROOTS[r]) + 1] = sep

IsFileRead(i) ==
    /\ IsMessage(i)
    /\ Method(i) = Str(<<"resources/read">>)
    /\ OptGet(Params(i), "uri").t = "string"
    /\ OptGet(Params(i), "uri").s # <<>>
    /\ Head(OptGet(Params(i), "uri").s) = "file://"
\* the uri of line i without its file:// prefix
PathOf(i) == Tail(OptGet(Params(i), "uri").s)

\* C10: a file read is attempted only on a path that begins with a root
\* followed by the separator; a resources/read of any other path is answered
\* by the error -32001, with no read attempted.
C10_ReadsOnlyUnderRoot ==
    /\ \A k \in 1..Len(reads) : UnderRoot(reads[k].path)
    /\ \A i \in 1..pos :
          IsFileRead(i) =>
              IF UnderRoot(PathOf(i))
              THEN ReadsOf(i) = <<[path |-> PathOf(i), src |-> i]>>
              ELSE OneError(i, -32001) /\ ReadsOf(i) = <<>>

\* the sibling /demo-rootx of the root /demo-root has been asked for and refused
C10_Witness ==
    \E i \in 1..pos :
        /\ IsFileRead(i)
        /\ PathOf(i) = ROOTS[1] \o <<"x">>
        /\ Len(OutOf(i)) = 1
        /\ ReadsOf(i) = <<>>

-----------------------------------------------------------------------------
(* Prompts *)

\* line i is a prompts/get that names the registered prompt
IsPromptGet(i) ==
    /\ IsMessage(i)
    /\ Method(i) = Str(<<"prompts/get">>)
    /\ OptGet(Params(i), "name") = HelloTemplate

\* the arguments of line i hold every key the schema of the prompt requires
HasRequired(i) ==
    /\ Arguments(i).t = "object"
    /\ \A k \in 1..Len(prompts[1].f.inputSchema.f.required.a) :
          prompts[1].f.inputSchema.f.required.a[k].s[1] \in DOMAIN Arguments(i).f

\* the placeholders of the variables the schema of the prompt declares
DeclaredPlaceholders ==
    {a \in DOMAIN Placeholders :
        Placeholders[a] \in DOMAIN prompts[1].f.inputSchema.f.properties.f}

Contains(text, atoms) == \E k \in 1..Len(text) : text[k] \in atoms

\* the text of the message a reply to prompts/get carries
Rendered(c) == c.json.f.result.f.prompt.f.messages.a[1].f.content.s

\* no argument of line i has a string form that holds a declared placeholder
NoPlaceholderSupplied(i) ==
    \A k \in DOMAIN Arguments(i).f :
        ~Contains(JsString(Arguments(i).f[k]), DeclaredPlaceholders)

\* C11 as stated: a prompts/get that names the registered prompt and supplies
\* every required key, whatever the values, is answered by a message whose text
\* holds no placeholder of a declared variable.
C11_NoPlaceholderLeft ==
    \A i \in 1..pos :
        IsPromptGet(i) /\ HasRequired(i) =>
            /\ Len(OutOf(i)) = 1
            /\ IsResult(OutOf(i)[1])
            /\ ~Contains(Rendered(OutOf(i)[1]), DeclaredPlaceholders)

\* C11, amended: a prompts/get that names the registered prompt and supplies
\* every required key, with no argument whose own string form holds a
\* placeholder of a declared variable, is answered by a message whose text
\* holds no placeholder of a declared variable.
C11_NoPlaceholderLeftUnlessSupplied ==
    \A i \in 1..pos :
        IsPromptGet(i) /\ HasRequired(i) /\ NoPlaceholderSupplied(i) =>
            /\ Len(OutOf(i)) = 1
            /\ IsResult(OutOf(i)[1])
            /\ ~Contains(Rendered(OutOf(i)[1]), DeclaredPlaceholders)

C11_Witness ==
    \E i \in 1..pos :
        /\ IsPromptGet(i) /\ HasRequired(i)
        /\ Arguments(i).f.name = Str(<<"Luis">>)
        /\ Len(OutOf(i)) = 1
        /\ Rendered(OutOf(i)[1]) =
              <<"Ola, ", "Luis", "! Bem-vindo ao Servidor MCP de demonstracao.">>

\* the required keys the arguments of line i do not hold
Omitted(i) ==
    {prompts[1].f.inputSchema.f.required.a[k] :
        k \in {j \in 1..Len(prompts[1].f.inputSchema.f.required.a) :
                 \/ Arguments(i).t # "object"
                 \/ prompts[1].f.inputSchema.f.required.a[j].s[1] \notin DOMAIN Arguments(i).f}}

\* the data of the error chunk c lists every string of the set names
NamesAll(c, names) ==
    /\ "data" \in DOMAIN c.json.f.error.f
    /\ \A n \in names :
          \E k \in 1..Len(c.json.f.error.f.data.f.required.a) :
              c.json.f.error.f.data.f.required.a[k] = n

\* C12: a prompts/get whose name matches no registered prompt is answered by
\* the one error -32601; one that names the registered prompt and whose
\* arguments lack a required key is answered by the one error -32602, whose
\* data names the omitted key, and by no rendered message.
C12_PromptErrors ==
    \A i \in 1..pos :
        IsMessage(i) /\ Method(i) = Str(<<"prompts/get">>) =>
            /\ ~IsPromptGet(i) => OneError(i, METHOD_NOT_FOUND)
            /\ IsPromptGet(i) /\ Omitted(i) # {} =>
                  /\ OneError(i, INVALID_PARAMS)
                  /\ NamesAll(OutOf(i)[1], Omitted(i))

-----------------------------------------------------------------------------
(* Precedence of the failures of resources/read *)

\* C15: a resources/read whose uri is absent or does not begin with file://
\* is answered by the one error -32602; otherwise one whose path is under no
\* root by -32001; otherwise one whose read fails by -32002 with the message
\* of the failure in its data; and a failing read neither stops the process
\* nor is answered by -32603.
C15_ReadFailurePrecedence ==
    \A i \in 1..pos :
        IsMessage(i) /\ Method(i) = Str(<<"resources/read">>) =>
            IF ~IsFileRead(i) THEN OneError(i, INVALID_PARAMS)
            ELSE IF ~UnderRoot(PathOf(i)) THEN OneError(i, OUTSIDE_ROOTS)
            ELSE ~Readable(PathOf(i), disk) =>
                    /\ OneError(i, READ_FAILED)
                    /\ "message" \in DOMAIN OutOf(i)[1].json.f.error.f.data.f
                    /\ proc = "running"

-----------------------------------------------------------------------------
(* Precedence of the failures of tools/call *)

\* C18: a tools/call is answered by exactly one message, chosen in this order:
\* the error -32601 whose message names the tool when the name is not that of
\* the registered tool, whatever the arguments; else the error -32602 when a or
\* b is not a number, whatever op is; else the error -32602 whose data lists
\* the four operations when op is none of them; else the error -32000 when op
\* is div and b is 0; else, and only then, a result.
C18_CallFailurePrecedence ==
    \A i \in 1..pos :
        IsMessage(i) /\ Method(i) = Str(<<"tools/call">>) =>
            IF ~IsCalculatorCall(i)
            THEN /\ OneError(i, METHOD_NOT_FOUND)
                 /\ OutOf(i)[1].json.f.error.f.message.s =
                       <<"Tool nao encontrada: ">> \o JsString(OptGet(Params(i), "name"))
            ELSE IF ArgA(i).t # "number" \/ ArgB(i).t # "number"
            THEN OneError(i, INVALID_PARAMS)
            ELSE IF \A k \in 1..Len(ArithmeticOps) : ArgOp(i) # ArithmeticOps[k]
            THEN /\ OneError(i, INVALID_PARAMS)
                 /\ OutOf(i)[1].json.f.error.f.data.f.allowed.a =
                       <<Str(<<"add">>), Str(<<"sub">>), Str(<<"mul">>), Str(<<"div">>)>>
            ELSE IF ArgOp(i) = Str(<<"div">>) /\ ArgB(i) = Num(0)
            THEN OneError(i, DIVISION_BY_ZERO)
            ELSE /\ Len(OutOf(i)) = 1
                 /\ IsResult(OutOf(i)[1])
                 /\ ~IsError(OutOf(i)[1])

\* a call of an unregistered tool whose a and b are no numbers has been handled
C18_Witness ==
    \E i \in 1..pos :
        /\ IsMessage(i) /\ Method(i) = Str(<<"tools/call">>)
        /\ OptGet(Params(i), "name") = Str(<<"nope">>)
        /\ ArgA(i).t # "number"
        /\ OneError(i, METHOD_NOT_FOUND)

-----------------------------------------------------------------------------
(* Order of the output *)

\* C17: nothing is written for a line the listener has not taken yet, and of
\* two requests with ids, every message written for the one that comes first
\* in the input stands in the output before every message written for the
\* other.
C17_ResponsesInRequestOrder ==
    /\ \A k \in 1..Len(stdout) : stdout[k].by = "line" => stdout[k].src <= pos
    /\ \A i, j \in 1..pos :
          i < j /\ HasId(i) /\ HasId(j) =>
              \A k1, k2 \in 1..Len(stdout) :
                  /\ stdout[k1].by = "line" /\ stdout[k1].src = i
                  /\ stdout[k2].by = "line" /\ stdout[k2].src = j
                  => k1 < k2

\* two requests with ids have been answered, with the notifications of an
\* initialize written between the two answers
C17_Witness ==
    /\ pos = 2
    /\ HasId(1) /\ HasId(2)
    /\ Len(OutOf(1)) = 1 /\ Len(OutOf(2)) = 1
    /\ Len(stdout) = 5
    /\ stdout[1].src = 1 /\ stdout[5].by = "line" /\ stdout[5].src = 2

\* C20: the notifications of one initialize stand in the output as one block
\* of three: between two of them there is nothing but notifications of the
\* same initialize, wherever the block lies among the answers to later lines.
C20_NotificationsInOneBlock ==
    \A k1, k2 \in 1..Len(stdout) :
        /\ k1 < k2
        /\ stdout[k1].by = "timer" /\ stdout[k2].by = "timer"
        /\ stdout[k1].src = stdout[k2].src
        => /\ k2 - k1 < 3
           /\ \A k \in k1..k2 : stdout[k].by = "timer" /\ stdout[k].src = stdout[k1].src

\* the block of an initialize was written after the answer to a later line
C20_Witness ==
    /\ Len(stdout) = 5
    /\ stdout[1].by = "line" /\ stdout[1].src = 1
    /\ stdout[2].by = "line" /\ stdout[2].src = 2
    /\ \A k \in 3..5 : stdout[k].by = "timer" /\ stdout[k].src = 1

-----------------------------------------------------------------------------
(* The notifications that follow initialize *)

IsInitialize(i) == IsMessage(i) /\ Method(i) = Str(<<"initialize">>)

\* the notifications written by the timer of line i, in output order
NotificationsOf(i) == SelectSeq(stdout, LAMBDA c : c.by = "timer" /\ c.src = i)

\* the methods of a sequence of chunks
MethodsOf(chunks) == [k \in 1..Len(chunks) |-> Get(chunks[k].json, "method")]

ListChangedMethods ==
    <<Str(<<"notifications/tools/list_changed">>),
      Str(<<"notifications/resources/list_changed">>),
      Str(<<"notifications/prompts/list_changed">>)>>

Pending(i) == \E k \in 1..Len(timers) : timers[k] = i

\* a handled initialize has its one reply in the output; its notifications
\* are either not written yet or the three of them, in order and after the
\* reply; while the process runs they are written exactly when no timer of the
\* line is pending; and the output holds no notification but these
InitializeThenNotifications ==
    /\ \A i \in 1..pos :
          IsInitialize(i) =>
              /\ Len(OutOf(i)) = 1
              /\ IsResult(OutOf(i)[1])
              /\ MethodsOf(NotificationsOf(i)) \in {<<>>, ListChangedMethods}
              /\ \A k1, k2 \in 1..Len(stdout) :
                    /\ stdout[k1].by = "line" /\ stdout[k1].src = i
                    /\ stdout[k2].by = "timer" /\ stdout[k2].src = i
                    => k1 < k2
              /\ proc = "running" => (Pending(i) <=> NotificationsOf(i) = <<>>)
              /\ Len(SelectSeq(timers, LAMBDA t : t = i)) <= 1
    /\ \A k \in 1..Len(stdout) :
          /\ stdout[k].by = "timer" =>
                stdout[k].src \in 1..pos /\ IsInitialize(stdout[k].src)
          /\ stdout[k].by = "line" => "method" \notin DOMAIN stdout[k].json.f
    /\ proc = "running" /\ timers = <<>> =>
          Len(SelectSeq(stdout, LAMBDA c : "method" \in DOMAIN c.json.f))
             = 3 * Cardinality({i \in 1..pos : IsInitialize(i)})

\* C16: a handled initialize is answered first and then, unless the process
\* ends before, its three notifications tools, resources, prompts
\* list_changed are written, in this order and once; nothing else writes a
\* notification, so that n handled initialize requests with no timer left and
\* no exit have caused 3n notifications.
C16_ReplyThenThreeNotifications ==
    /\ []InitializeThenNotifications
    /\ \A i \in 1..MaxLines :
          (i <= pos /\ IsInitialize(i))
             ~> (proc # "running" \/ MethodsOf(NotificationsOf(i)) = ListChangedMethods)

\* two initialize requests were handled and the six notifications written
C16_Witness ==
    /\ pos = 2
    /\ IsInitialize(1) /\ IsInitialize(2)
    /\ proc = "running" /\ timers = <<>>
    /\ Len(SelectSeq(stdout, LAMBDA c : c.by = "timer")) = 6

-----------------------------------------------------------------------------
(* The structural validator *)

\* the error records the latest call left in the errors property
ErrorsLeft == IF validator.errors = Null THEN <<>> ELSE validator.errors.a

IsObjectSchema == Get(validator.schema, "type") = Str(<<"object">>)

\* the names of required, and those of them the data of the latest call lacks
RequiredNames ==
    IF Get(validator.schema, "required") = Undefined THEN <<>>
    ELSE Get(validator.schema, "required").a
MissingNames == SelectSeq(RequiredNames, LAMBDA n : n.s[1] \notin DOMAIN last.data.f)

\* the declared properties the data holds, in the order of the schema
DeclaredPresent ==
    SelectSeq(KeyOrder, LAMBDA key :
        /\ Get(validator.schema, "properties") # Undefined
        /\ key \in DOMAIN Get(validator.schema, "properties").f
        /\ key \in DOMAIN last.data.f)

\* the validation of the property key of the data against its schema
Recursion(key) ==
    validateAgainstSchema(last.data.f[key], Get(validator.schema, "properties").f[key],
                          <<"/">> \o escapeJsonPointer(key))

\* the records of the latest call that report a missing property of the data
RequiredRecords ==
    SelectSeq(ErrorsLeft, LAMBDA e :
        e.f.keyword = Str(<<"required">>) /\ e.f.instancePath = Str(<<>>))

\* C19: under a schema of type object, a value that is no object (null and
\* arrays included) leaves exactly one error, of keyword type, and is invalid;
\* an object leaves one required error for each name of required it lacks,
\* all of them, then the errors of the validations of the declared properties
\* it holds and of no other, and it is valid exactly when no required error
\* was left and each of these validations was valid.
C19_ObjectSchema ==
    last.called /\ IsObjectSchema =>
        IF last.data.t # "object"
        THEN /\ ~last.isValid
             /\ Len(ErrorsLeft) = 1
             /\ ErrorsLeft[1].f.keyword = Str(<<"type">>)
        ELSE /\ [k \in 1..Len(RequiredRecords) |-> RequiredRecords[k].f.params.f.missingProperty]
                   = MissingNames
             /\ ErrorsLeft =
                   SubSeq(ErrorsLeft, 1, Len(MissingNames))
                   \o Pushed([k \in 1..Len(DeclaredPresent) |-> Recursion(DeclaredPresent[k])])
             /\ last.isValid <=>
                   /\ MissingNames = <<>>
                   /\ \A k \in 1..Len(DeclaredPresent) : Recursion(DeclaredPresent[k]).valid

\* an object that lacks both required names and holds a declared property of
\* the wrong type has been validated
C19_Witness ==
    /\ last.called /\ IsObjectSchema
    /\ last.data.t = "object"
    /\ Len(MissingNames) = 2
    /\ Len(DeclaredPresent) = 1
    /\ ~Recursion(DeclaredPresent[1]).valid
    /\ Len(ErrorsLeft) = 3

\* C14: a call of a validator compiled by the fallback provider returns true
\* exactly when it leaves null in errors and false exactly when it leaves a
\* list that is not empty; what it leaves is what a validator never called
\* before leaves for the same data, whatever the calls before.
C14_VerdictMatchesErrors ==
    /\ ~last.called /\ validator # Undefined => validator.errors = Null
    /\ last.called =>
          /\ last.isValid <=> validator.errors = Null
          /\ ~last.isValid <=> (validator.errors.t = "array" /\ Len(validator.errors.a) > 0)
          /\ validator.errors = validate(compile(validator.schema), last.data).errors

\* a call that found errors was followed by a call that found none
C14_Witness ==
    /\ last.called
    /\ last.before # Null
    /\ last.isValid
    /\ validator.errors = Null
    /\ Get(validator.schema, "properties") # Undefined

\* a value JSON can write
IsJsonValue(v) == v \in JsonValues

\* C13: for a schema of the subset and a value, the validator compiled by the
\* fallback provider returns what the validator compiled by the full package
\* returns.
C13_SameVerdictAsFullValidator ==
    last.called /\ IsJsonValue(last.data) =>
        last.isValid = ajvValidate(last.data, validator.schema)

====
